---- MODULE Spec2Model ----
(***************************************************************************)
(* Crawl orchestration of telleroutlook/doctor: CrawlerState (the durable  *)
(* run state and its checkpoint file) and MSDManualsCrawler.run with       *)
(* _initialize_urls and discover_urls, from src/code/crawler/main_crawler.py *)
(* A behaviour is a sequence of crawler processes working on one           *)
(* checkpoint file: each process constructs the crawler (load_state),      *)
(* runs once and exits.  SimpleMSDCrawler.run (src/code/simple_crawler.py) *)
(* and MSDContentParser.parse (src/code/parsers/content_parser.py) are     *)
(* modelled beside it, and so are the components that are called on their  *)
(* own: the two article stores, QualityValidator, _get_domain_delay and    *)
(* RateLimiter.  crawler tells which of the programs runs.                 *)
(***************************************************************************)
EXTENDS Integers, Sequences, FiniteSets, TLC

VARIABLES
    file,           \* the checkpoint file crawler_state.json on disk
    db,             \* URLs of the articles stored in the database
    state,          \* CrawlerState.state of the running process
    url_queue,      \* MSDManualsCrawler.url_queue (the URL of each entry)
    seen_urls,      \* MSDManualsCrawler.seen_urls
    pages_crawled,  \* local of run
    pc,             \* position of the process
    language,       \* argument of run
    version,        \* argument of run
    max_pages,      \* argument of run
    save_interval,  \* config['state']['save_interval']
    runNo,          \* number of processes started so far
    downloads,      \* history: calls of _download_page per URL in this run
    dequeued,       \* history: entries popped from url_queue in this run
    enqueued,       \* history: entries discover_urls added per URL, this run
    offered,        \* history: links offered to discover_urls in this run
    final_saves,    \* history: calls of save_state in the finally block
    reports,        \* history: calls of _generate_report
    interrupted,    \* history: KeyboardInterrupt was raised in this run
    pending,        \* history: queued, unprocessed URLs at the last interrupt
                    \* that was followed by the final checkpoint
    save_prev,      \* history: the file before the save_state that crashed
    save_new,       \* history: the file that save_state was writing
    crawler,        \* the program that is run: main_crawler, simple_crawler
                    \* or the test of content_parser
    simple_queue,   \* SimpleMSDCrawler.run: url_queue
    simple_seen,    \* SimpleMSDCrawler.seen_urls
    processed_count,\* SimpleMSDCrawler.processed_count
    simple_pc,      \* position of the simple crawler
    simple_enqueued,\* history: entries its discover_urls added per URL
    simple_offered, \* history: links offered to its discover_urls
    fetch,          \* history: the last iteration of run that called
                    \* _download_page: its URL, how it ended, the status
                    \* of the response, the requests that were sent and
                    \* whether time.sleep was called
    document,       \* the document given to MSDContentParser.parse
    parsed,         \* what parse returned for it
    article_model,  \* rows of the table of ArticleModel (database/models.py)
    store_stats,    \* the counters _save_to_database increments
    save_log,       \* history: the data given to _save_to_database
    articles,       \* rows of the table articles of MedicalDatabase
    insert_log,     \* history: the article_data given to insert_article
    insert_raised,  \* history: the last insert_article raised
    article,        \* the article_data given to validate_article
    validation,     \* what validate_article returned for it
    pacing,         \* the URL and the configuration of _get_domain_delay
    delay,          \* what _get_domain_delay returned, in tenths of a second
    clock,          \* time.monotonic(), in seconds
    access_log,     \* RateLimiter._access_log[client_id] of the one client
    threads,        \* per request thread: its position in allow and its now
    calls,          \* history: calls of allow started
    admitted        \* history: now of each call of allow that returned True

msdVars == <<file, db, state, url_queue, seen_urls, pages_crawled, pc,
             language, version, save_interval, runNo, downloads, dequeued,
             enqueued, offered, final_saves, reports, interrupted, pending,
             save_prev, save_new, fetch>>

simpleVars == <<simple_queue, simple_seen, processed_count, simple_pc,
                simple_enqueued, simple_offered>>

parserVars == <<document, parsed>>

storeVars == <<article_model, store_stats, save_log, articles, insert_log,
               insert_raised>>

qualityVars == <<article, validation>>

pacerVars == <<pacing, delay>>

limiterVars == <<clock, access_log, threads, calls, admitted>>

componentVars == <<storeVars, qualityVars, pacerVars, limiterVars>>

vars == <<msdVars, simpleVars, parserVars, componentVars, max_pages,
          crawler>>

(***************************************************************************)
(* Bounds of the model.                                                    *)
(***************************************************************************)
MaxPages == 3
MaxSaveInterval == 2
MaxRuns == 2

(***************************************************************************)
(* URLs.  A URL is its host and its path; the path is the sequence of its  *)
(* segments, a trailing slash being an empty last segment; the fragment is *)
(* what follows '#'.                                                       *)
(***************************************************************************)
Url(host, path) == [host |-> host, path |-> path, fragment |-> ""]

HOME   == Url("www.msdmanuals.com", <<"home", "">>)
TOPICS == Url("www.msdmanuals.com", <<"home", "health-topics", "">>)
PRO    == Url("www.msdmanuals.com", <<"professional", "">>)
PAGE_A == Url("www.msdmanuals.com", <<"home", "a">>)
PAGE_B == Url("www.msdmanuals.com", <<"home", "b">>)
ADMIN  == Url("www.msdmanuals.com", <<"sitecore", "x">>)
EXT    == Url("example.org", <<"x">>)
\* https://www.msdmanuals.com/home/b#top
PAGE_B_TOP == [PAGE_B EXCEPT !.fragment = "top"]

Urls == {HOME, TOPICS, PRO, PAGE_A, PAGE_B, ADMIN, EXT, PAGE_B_TOP}

\* The site: the links extract_links returns for the page at each URL, in
\* document order and already absolute.
Links(u) ==
    CASE u = HOME   -> <<HOME, TOPICS, PAGE_A, PAGE_A, EXT>>
      [] u = TOPICS -> <<PAGE_A>>
      [] u = PAGE_A -> <<ADMIN, HOME>>
      [] u = PRO    -> <<PAGE_B, PAGE_B_TOP, PRO>>
      [] OTHER      -> <<>>

Range(s) == {s[i] : i \in 1..Len(s)}

RECURSIVE SetToSeq(_)
\* list(a_set): the elements in some order
SetToSeq(S) ==
    IF S = {} THEN <<>>
    ELSE LET x == CHOOSE y \in S : TRUE IN <<x>> \o SetToSeq(S \ {x})

(***************************************************************************)
(* CrawlerState                                                            *)
(***************************************************************************)
Counters == {"urls_processed", "successful_downloads",
             "landing_pages_skipped", "failed_downloads", "parse_errors",
             "duplicates_found", "new_articles_created",
             "existing_articles_updated"}

\* CrawlerState.__init__: the zeroed defaults.  processed_urls_type tells
\* what Python value processed_urls holds: a set, or (after a failed load)
\* the non-iterable value of the file.
DefaultState ==
    [urls_processed |-> 0, successful_downloads |-> 0,
     landing_pages_skipped |-> 0, failed_downloads |-> 0, parse_errors |-> 0,
     duplicates_found |-> 0, new_articles_created |-> 0,
     existing_articles_updated |-> 0, error_log |-> <<>>,
     processed_urls |-> {}, failed_urls |-> {},
     processed_urls_type |-> "set"]

\* The JSON document of a checkpoint: the sets are lists.
EmptyJson ==
    [urls_processed |-> 0, successful_downloads |-> 0,
     landing_pages_skipped |-> 0, failed_downloads |-> 0, parse_errors |-> 0,
     duplicates_found |-> 0, new_articles_created |-> 0,
     existing_articles_updated |-> 0, error_log |-> <<>>,
     processed_urls |-> <<>>, failed_urls |-> <<>>,
     processed_urls_type |-> "list"]

MissingFile     == [kind |-> "missing", data |-> EmptyJson]
UnparseableFile == [kind |-> "unparseable", data |-> EmptyJson]
\* a parseable checkpoint whose processed_urls is a number
MalformedFile ==
    [kind |-> "json",
     data |-> [EmptyJson EXCEPT !.urls_processed = 1,
                                !.failed_downloads = 1,
                                !.processed_urls_type = "int"]]

\* _generate_report, line 504: the number of error_log entries it shows
ErrorLogShown == 10

\* a checkpoint written by an earlier crawl of www.msdmanuals.cn in which
\* ErrorLogShown pages failed
OldNames == <<"p01", "p02", "p03", "p04", "p05", "p06", "p07", "p08", "p09",
              "p10">>
OldUrls ==
    [i \in 1..ErrorLogShown |-> Url("www.msdmanuals.cn", <<"home", OldNames[i]>>)]

FullLogFile ==
    [kind |-> "json",
     data |-> [EmptyJson EXCEPT !.urls_processed = ErrorLogShown,
                                !.failed_downloads = ErrorLogShown,
                                !.error_log = OldUrls,
                                !.processed_urls = OldUrls,
                                !.failed_urls = OldUrls]]

InitialFiles == {MissingFile, UnparseableFile, MalformedFile, FullLogFile}

\* state_copy that fills failed_urls from processed_urls
state_copy_wrong_key(st) ==
    [st EXCEPT !.processed_urls = SetToSeq(st.processed_urls),
               !.failed_urls = SetToSeq(st.processed_urls),
               !.processed_urls_type = "list"]

\* save_state, lines 59-61: state_copy with the sets turned into lists
state_copy(st) ==
    [st EXCEPT !.processed_urls = SetToSeq(st.processed_urls),
               !.failed_urls = SetToSeq(st.failed_urls),
               !.processed_urls_type = "list"]

\* save_state: the file it leaves.  list() of a non-iterable raises, the
\* handler logs and the file is not opened.
save_state(st, f) ==
    IF st.processed_urls_type = "set"
    THEN [kind |-> "json", data |-> state_copy(st)]
    ELSE f

\* load_state: the state it leaves, starting from st.
load_state(f, st) ==
    IF f.kind = "missing" THEN st
    ELSE IF f.kind = "unparseable" THEN st      \* json.load raises
    ELSE IF f.data.processed_urls_type = "list"
         THEN [f.data EXCEPT !.processed_urls = Range(f.data.processed_urls),
                             !.failed_urls = Range(f.data.failed_urls),
                             !.processed_urls_type = "set"]
         \* state.update(saved_state) is done, then set(...) raises
         ELSE [f.data EXCEPT !.processed_urls = {},
                             !.failed_urls = Range(f.data.failed_urls)]

\* update_stats(**kwargs): kw maps counter names to increments
update_stats(st, kw) ==
    [k \in DOMAIN st |-> IF k \in DOMAIN kw THEN st[k] + kw[k] ELSE st[k]]

add_processed_url(st, url) ==
    [st EXCEPT !.processed_urls = @ \cup {url},
               !.urls_processed = Cardinality(st.processed_urls \cup {url})]

add_failed_url(st, url) ==
    [st EXCEPT !.failed_urls = @ \cup {url},
               !.error_log = Append(@, url)]

(***************************************************************************)
(* MSDManualsCrawler                                                       *)
(***************************************************************************)
allowed_domains ==
    {"www.msdmanuals.com", "www.msdmanuals.cn", "www.msdvetmanual.com"}

\* '/x/' in path
HasDir(path, x) == \E i \in 1..(Len(path) - 1) : path[i] = x
\* '/x/y/' in path
HasDir2(path, x, y) ==
    \E i \in 1..(Len(path) - 2) : path[i] = x /\ path[i + 1] = y
\* '/x' in path, for the segments of the model
HasSeg(path, x) == \E i \in 1..Len(path) : path[i] = x

\* _is_allowed_url without the loop over disallowed_paths
_is_allowed_url_any_path(url) == url.host \in allowed_domains

_is_allowed_url(url) ==
    /\ url.host \in allowed_domains
    /\ ~HasDir(url.path, "sitecore")
    /\ ~HasDir(url.path, "custom")
    /\ ~HasDir2(url.path, "news", "external")
    /\ ~HasDir2(url.path, "multimedia", "zk")
    /\ ~HasSeg(url.path, "downloadtextfile")
    /\ ~HasSeg(url.path, "pagerevalidation")
    /\ ~HasSeg(url.path, "bigqueryexport")

\* _initialize_urls: the entries it appends; <<>> stands for ValueError
Supported(lang, ver) ==
    \/ ver \in {"home", "professional"} /\ lang \in {"en", "zh"}
    \/ ver = "veterinary" /\ lang = "en"

start_url(lang, ver) ==
    CASE ver = "home" /\ lang = "en" -> HOME
      [] ver = "professional" /\ lang = "en" -> PRO
      [] ver = "home" /\ lang = "zh" ->
            Url("www.msdmanuals.cn", <<"home", "">>)
      [] ver = "professional" /\ lang = "zh" ->
            Url("www.msdmanuals.cn", <<"professional", "">>)
      [] OTHER -> Url("www.msdvetmanual.com", <<"">>)

_initialize_urls(lang, ver) ==
    LET s == start_url(lang, ver)
        root == IF lang = "zh" /\ Url("www.msdmanuals.cn", <<"">>) # s
                THEN <<Url("www.msdmanuals.cn", <<"">>)>> ELSE <<>>
        topics == IF ver = "home"
                  THEN <<Url(s.host, <<"home", "health-topics", "">>)>>
                  ELSE <<>>
    IN <<s>> \o root \o topics

RECURSIVE discover_from_unseen(_, _, _, _)
\* discover_urls without line 342, seen_urls.add(full_url)
discover_from_unseen(links, i, processed, acc) ==
    IF i > Len(links) THEN acc
    ELSE LET url == links[i]
             take == /\ _is_allowed_url(url)
                     /\ url \notin acc.seen
                     /\ url \notin processed
         IN discover_from_unseen(links, i + 1, processed,
                IF take THEN [urls |-> Append(acc.urls, url),
                              seen |-> acc.seen]
                ELSE acc)

RECURSIVE discover_from(_, _, _, _)
\* discover_urls, the loop over the links from link i on: acc holds the
\* urls found so far and the seen set
discover_from(links, i, processed, acc) ==
    IF i > Len(links) THEN acc
    ELSE LET url == links[i]
             take == /\ _is_allowed_url(url)
                     /\ url \notin acc.seen
                     /\ url \notin processed
         IN discover_from(links, i + 1, processed,
                IF take THEN [urls |-> Append(acc.urls, url),
                              seen |-> acc.seen \cup {url}]
                ELSE acc)

\* discover_urls that starts every call with an empty seen set and does
\* not look at processed_urls
discover_urls_forgetful(page, seen, processed) ==
    discover_from(Links(page), 1, {}, [urls |-> <<>>, seen |-> {}])

\* discover_urls, lines 323-344
discover_urls(page, seen, processed) ==
    discover_from(Links(page), 1, processed, [urls |-> <<>>, seen |-> seen])

(***************************************************************************)
(* MSDContentParser, src/code/parsers/content_parser.py                    *)
(* A document is described by what _extract_content looks at:              *)
(*   has_body     there is a body element                                  *)
(*   region       "main": a main or article element; "class": an element   *)
(*                matched only by a class selector (.main-content,         *)
(*                .article-body); "none": no content selector matches      *)
(*   region_words words of the region's text without nav, footer, aside    *)
(*   region_long  that text has more than 100 characters                   *)
(*   body_words   words of the body's text without nav, footer, aside      *)
(*   top_count    occurrences of the most frequent word of that text       *)
(*   nav_in_body  words inside the nav elements of the body                *)
(*   nav_outside  words inside nav elements that are not in the body       *)
(***************************************************************************)
WordCounts == {0, 5, 20, 32}
RegionWordCounts == {0, 5, 20}
TopCounts == {1, 3, 11, 12, 20}
NavInBodyCounts == {0, 9, 10}
NavOutsideCounts == {0, 10}

Pages ==
    {pg \in [has_body : BOOLEAN, region : {"none", "main", "class"},
             region_words : RegionWordCounts, region_long : BOOLEAN,
             body_words : WordCounts, top_count : TopCounts \cup {0},
             nav_in_body : NavInBodyCounts, nav_outside : NavOutsideCounts] :
        /\ pg.region = "none" => (pg.region_words = 0 /\ ~pg.region_long)
        /\ pg.region_long => pg.region_words > 0
        /\ pg.region_words <= pg.body_words
        /\ (pg.top_count = 0) = (pg.body_words = 0)
        /\ pg.top_count <= pg.body_words
        /\ ~pg.has_body =>
              (pg.body_words = 0 /\ pg.nav_in_body = 0 /\ pg.region = "none")}

NoPage ==
    [has_body |-> FALSE, region |-> "none", region_words |-> 0,
     region_long |-> FALSE, body_words |-> 0, top_count |-> 0,
     nav_in_body |-> 0, nav_outside |-> 0]

\* _extract_text_content, lines 243-244: the nav elements inside the
\* element are removed from the document itself
decompose_unwanted(soup) == [soup EXCEPT !.nav_in_body = 0]

\* _is_nav_heavy_fallback, lines 213-217: the words of soup.find_all('nav')
nav_word_count(soup) == soup.nav_in_body + soup.nav_outside

\* _max_token_repeat_ratio(tokens) > 0.55, in hundredths
repeated_pattern(soup, word_count) ==
    IF word_count = 0 THEN TRUE
    ELSE soup.top_count * 100 > 55 * word_count

\* _is_nav_heavy_fallback, lines 206-228
_is_nav_heavy_fallback(soup, word_count) ==
    IF word_count = 0 THEN TRUE
    ELSE IF soup.region = "main" THEN FALSE
    ELSE LET n == nav_word_count(soup)
             d == IF word_count > 1 THEN word_count ELSE 1
             low_word_content == word_count < 32
             nav_dominated == n > 0 /\ n * 100 > 45 * d
         IN low_word_content
               /\ (nav_dominated \/ repeated_pattern(soup, word_count))

\* _extract_content, lines 159-204
_extract_content(soup) ==
    IF soup.region # "none" /\ soup.region_long
    THEN [word_count |-> soup.region_words, fallback |-> FALSE,
          is_landing_page |-> FALSE]
    ELSE IF soup.has_body
    THEN [word_count |-> soup.body_words, fallback |-> TRUE,
          is_landing_page |->
              _is_nav_heavy_fallback(decompose_unwanted(soup),
                                     soup.body_words)]
    ELSE [word_count |-> 0, fallback |-> FALSE, is_landing_page |-> FALSE]

\* parse, lines 59-135: None for a landing page, else the parsed data
parse(soup) ==
    IF _extract_content(soup).is_landing_page THEN "None" ELSE "parsed_data"

\* one call of MSDContentParser.parse
ParsePage ==
    /\ crawler = "parser"
    /\ parsed = "pending"
    /\ parsed' = parse(document)
    /\ UNCHANGED <<msdVars, simpleVars, componentVars, max_pages, crawler,
                   document>>

(***************************************************************************)
(* The article stores: the table of ArticleModel that _save_to_database    *)
(* of main_crawler.py writes, and the table articles of MedicalDatabase    *)
(* (complete_data_system.py).  A row is a record; a table is a set of rows.*)
(***************************************************************************)
\* the programs that call one component on its own
Components == {"store", "quality", "pacer", "limiter"}

\* the calls of _save_to_database, and of insert_article, in one behaviour
MaxUpserts == 3

Contents == {"alpha", "beta"}

\* hashlib.sha256(content.encode('utf-8')).hexdigest(): the first eight
\* digits of the digest of each content of the model, and of ''
Sha256(content) ==
    CASE content = "alpha" -> "8ed3f6ad"
      [] content = "beta" -> "f44e64e7"
      [] OTHER -> "e3b0c442"

StoreUrls == {PAGE_A, PAGE_B}

\* the data of a parsed page that the stores are given
Articles == [url : StoreUrls, content : Contents]

NoStoreStats == [new_articles_created |-> 0, existing_articles_updated |-> 0]

(***************************************************************************)
(* QualityValidator, src/code/complete_data_system.py                      *)
(* An article_data is described by what validate_article looks at: the     *)
(* length of the title, word_count, the number of medical_terms, the url   *)
(* as its scheme and the rest, the category and language of metadata, and  *)
(* the content as                                                          *)
(*   length               len(content)                                     *)
(*   lines                len(content.split('\n'))                         *)
(*   repeated_lines       the distinct stripped lines of more than ten     *)
(*                        characters that occur more than once             *)
(*   avg_sentence_length  the mean number of words of its sentences (a     *)
(*                        whole number in the model; 0: no sentence)       *)
(***************************************************************************)
quality_rules ==
    [title_min_length |-> 5, content_min_length |-> 100,
     word_count_min |-> 10, min_medical_terms |-> 1,
     min_quality_score |-> 30]

\* max_repeated_chars = 0.3, as a fraction
max_repeated_chars == <<3, 10>>

EmptyContent ==
    [length |-> 0, lines |-> 1, repeated_lines |-> 0,
     avg_sentence_length |-> 0]

\* a repeated line has eleven characters at least, a sentence of n words
\* has 2n - 1 characters at least
QualityContents ==
    {EmptyContent} \cup
    {c \in [length : {24, 99, 100, 200}, lines : 1..4,
            repeated_lines : {0, 1},
            avg_sentence_length : {0, 2, 16, 17, 35, 60, 76}] :
        /\ c.repeated_lines = 1 => (c.lines >= 2 /\ c.length >= 23)
        /\ 2 * c.avg_sentence_length - 1 <= c.length}

ArticleData ==
    [title_length : {4, 5}, content : QualityContents,
     word_count : {9, 10}, medical_terms : {0, 1},
     url : {<<"", "">>, <<"ftp", "://host/a">>, <<"https", "://host/a">>},
     category : {"", "cardiology"}, language : {"", "en"}]

NoArticle ==
    [title_length |-> 0, content |-> EmptyContent, word_count |-> 0,
     medical_terms |-> 0, url |-> <<"", "">>, category |-> "",
     language |-> ""]

NoValidation ==
    [is_valid |-> FALSE, quality_score |-> 0, readability_score |-> 0,
     done |-> FALSE]

Max2(a, b) == IF a >= b THEN a ELSE b
Min2(a, b) == IF a <= b THEN a ELSE b

\* _has_repeated_content, lines 718-735
_has_repeated_content(content) ==
    /\ content.length > 0
    /\ content.lines >= 3
    /\ content.repeated_lines * max_repeated_chars[2] >
           max_repeated_chars[1] * content.lines

\* _calculate_readability, lines 737-760
_calculate_readability(content) ==
    LET avg == content.avg_sentence_length
    IN IF content.length = 0 \/ avg = 0 THEN 0
       ELSE IF 30 <= avg /\ avg <= 50 THEN 100
       ELSE IF avg < 30 THEN Max2(0, avg * 3)
       ELSE Max2(0, 100 - (avg - 50) * 2)

\* url and url.startswith('http'), for the schemes of the model
StartsWithHttp(url) == url[1] \in {"http", "https"}

\* the score before line 709
raw_score(article_data) ==
    LET content == article_data.content
        readability_score == _calculate_readability(content)
    IN (IF article_data.title_length >= quality_rules.title_min_length
        THEN 20 ELSE 0)
       + (IF content.length >= quality_rules.content_min_length
          THEN 30 ELSE 0)
       + (IF article_data.word_count >= quality_rules.word_count_min
          THEN 20 ELSE 0)
       + (IF article_data.medical_terms >= quality_rules.min_medical_terms
          THEN 15 ELSE 0)
       + (IF StartsWithHttp(article_data.url) THEN 10 ELSE 0)
       + (IF article_data.category # "" /\ article_data.language # ""
          THEN 5 ELSE 0)
       - (IF _has_repeated_content(content) THEN 10 ELSE 0)
       + (IF readability_score >= 50 THEN 5 ELSE 0)

\* validate_article, lines 647-716: score = min(100, score)
validate_article(article_data) ==
    LET score == Min2(100, raw_score(article_data))
    IN [is_valid |-> score >= quality_rules.min_quality_score,
        quality_score |-> score,
        readability_score |->
            _calculate_readability(article_data.content),
        done |-> TRUE]

ValidateArticle ==
    /\ crawler = "quality"
    /\ ~validation.done
    /\ validation' = validate_article(article)
    /\ UNCHANGED <<msdVars, simpleVars, parserVars, max_pages, crawler,
                   storeVars, article, pacerVars, limiterVars>>

(***************************************************************************)
(* MSDManualsCrawler._get_domain_delay, with CRAWLER_CONFIG and            *)
(* DOMAIN_CONFIGS of config/crawler_config.py.  Delays are in tenths of a  *)
(* second.                                                                 *)
(***************************************************************************)
delay_between_requests == 50
download_delay_range == <<40, 60>>

\* DOMAIN_CONFIGS[domain]['delay']
domain_configs_delay(domain) ==
    CASE domain = "www.msdmanuals.com" -> 50
      [] domain = "www.msdmanuals.cn" -> 60
      [] domain = "www.msdvetmanual.com" -> 70

\* urlparse(url).netloc of the URLs the model asks the delay of
Netlocs == {"www.msdmanuals.com", "WWW.MSDMANUALS.CN",
            "www.msdvetmanual.com", "example.org"}

\* str.lower, for the netlocs of the model
Lower(netloc) ==
    IF netloc = "WWW.MSDMANUALS.CN" THEN "www.msdmanuals.cn" ELSE netloc

Pacings == [netloc : Netlocs, randomize_download_delay : BOOLEAN]

NoPacing == [netloc |-> "", randomize_download_delay |-> FALSE]

NoDelay == -1

\* the values random.uniform(min_delay, max_delay) can return
Uniform(min_delay, max_delay) == min_delay..max_delay

\* _get_domain_delay with the random value added to the delay of the domain
_get_domain_delay_added(p, draw) ==
    LET domain == Lower(p.netloc)
    IN (IF domain \in allowed_domains THEN domain_configs_delay(domain)
        ELSE delay_between_requests)
       + (IF p.randomize_download_delay THEN draw ELSE 0)

\* _get_domain_delay, lines 176-194; draw is what random.uniform returns
_get_domain_delay(p, draw) ==
    LET domain == Lower(p.netloc)
        base == IF domain \in allowed_domains
                THEN domain_configs_delay(domain)
                ELSE delay_between_requests
    IN IF p.randomize_download_delay THEN draw ELSE base

GetDomainDelay ==
    /\ crawler = "pacer"
    /\ delay = NoDelay
    /\ \E draw \in Uniform(download_delay_range[1], download_delay_range[2]) :
           delay' = _get_domain_delay(pacing, draw)
    /\ UNCHANGED <<msdVars, simpleVars, parserVars, max_pages, crawler,
                   storeVars, qualityVars, pacing, limiterVars>>

(***************************************************************************)
(* RateLimiter.allow, src/code/api/security.py, called by the request      *)
(* threads of the server for one client_id.  allow takes no lock: a thread *)
(* can be switched out between any two of its steps.                       *)
(***************************************************************************)
\* RateLimiter(max_requests, window_seconds), small values for the model
max_requests == 2
window_seconds == 2

\* the request threads, the seconds the clock runs, and the calls of allow
Threads == {1, 2}
MaxClock == 3
MaxCalls == 4

IdleThread == [pc |-> "idle", now |-> 0]

\* lines 61-63: now = time.monotonic(), and the log of the client is looked up
AllowStart(t) ==
    /\ crawler = "limiter"
    /\ threads[t].pc = "idle"
    /\ calls < MaxCalls
    /\ calls' = calls + 1
    /\ threads' = [threads EXCEPT ![t] = [pc |-> "while", now |-> clock]]
    /\ UNCHANGED <<clock, access_log, admitted>>

\* line 65: the condition of the while loop
AllowWhile(t) ==
    /\ crawler = "limiter"
    /\ threads[t].pc = "while"
    /\ threads' = [threads EXCEPT ![t].pc =
                      IF /\ access_log # <<>>
                         /\ access_log[1] <= threads[t].now - window_seconds
                      THEN "popleft" ELSE "if"]
    /\ UNCHANGED <<clock, access_log, calls, admitted>>

\* line 66: log.popleft(), IndexError on an empty deque ends the request
AllowPopleft(t) ==
    /\ crawler = "limiter"
    /\ threads[t].pc = "popleft"
    /\ IF access_log # <<>>
       THEN /\ access_log' = Tail(access_log)
            /\ threads' = [threads EXCEPT ![t].pc = "while"]
       ELSE /\ access_log' = access_log
            /\ threads' = [threads EXCEPT ![t] = IdleThread]
    /\ UNCHANGED <<clock, calls, admitted>>

\* lines 68-69: if len(log) >= self.max_requests: return False
AllowIf(t) ==
    /\ crawler = "limiter"
    /\ threads[t].pc = "if"
    /\ threads' = [threads EXCEPT ![t] =
                      IF Len(access_log) >= max_requests
                      THEN IdleThread
                      ELSE [pc |-> "append", now |-> threads[t].now]]
    /\ UNCHANGED <<clock, access_log, calls, admitted>>

\* lines 71-72: log.append(now); return True
AllowAppend(t) ==
    /\ crawler = "limiter"
    /\ threads[t].pc = "append"
    /\ access_log' = Append(access_log, threads[t].now)
    /\ admitted' = Append(admitted, threads[t].now)
    /\ threads' = [threads EXCEPT ![t] = IdleThread]
    /\ UNCHANGED <<clock, calls>>

\* a second passes
Tick ==
    /\ crawler = "limiter"
    /\ clock < MaxClock
    /\ clock' = clock + 1
    /\ UNCHANGED <<access_log, threads, calls, admitted>>

\* a step of the server: of one of its request threads, or of the clock
Allow ==
    /\ \/ \E t \in Threads :
              \/ AllowStart(t)
              \/ AllowWhile(t)
              \/ AllowPopleft(t)
              \/ AllowIf(t)
              \/ AllowAppend(t)
       \/ Tick
    /\ UNCHANGED <<msdVars, simpleVars, parserVars, max_pages, crawler,
                   storeVars, qualityVars, pacerVars>>

ZeroCount == [u \in Urls |-> 0]

\* RETRY_CONFIG, crawler_config.py lines 86-92
max_retries == 3
retry_status_codes == {429, 500, 502, 503, 504}
give_up_status_codes == {403, 404, 451}

\* the answers to session.get that the model draws from: a page, a
\* retryable status, a give-up status, and 0 for a request that raised
\* ConnectionError or Timeout
Statuses == {200, 503, 404, 0}

\* _download_page that repeats a failed request until max_retries
_download_page_retrying(status) ==
    [ok |-> status = 200,
     attempts |-> IF status = 200 THEN 1 ELSE max_retries,
     slept |-> status = 200]

\* _download_page, lines 225-253: one session.get, then raise_for_status;
\* the handler logs and raises again.  time.sleep(delay) of line 247 comes
\* after raise_for_status, the only sleep of a run
_download_page(status) ==
    [ok |-> status = 200, attempts |-> 1, slept |-> status = 200]

NoUrl == Url("", <<>>)
NoFetch ==
    [url |-> NoUrl, outcome |-> "none", status |-> 0, attempts |-> 0,
     slept |-> FALSE]

\* what an iteration leaves in fetch
Fetched(url, outcome, status) ==
    [url |-> url, outcome |-> outcome, status |-> status,
     attempts |-> _download_page(status).attempts,
     slept |-> _download_page(status).slept]

\* the exception raised in the handler of line 399 instead of being logged
handler_exit_raise == "finally"

\* run, lines 399-405: the handler records the failure and the loop goes on
handler_exit == "loop"

\* the arguments of run that the model starts the crawler with; the last
\* one is a combination _initialize_urls does not support
LanguageVersions == {<<"en", "home">>, <<"en", "professional">>,
                     <<"fr", "home">>}

Init ==
    /\ file \in InitialFiles
    /\ db = {}
    /\ state = DefaultState
    /\ url_queue = <<>>
    /\ seen_urls = {}
    /\ pages_crawled = 0
    /\ pc = "idle"
    /\ \E lv \in LanguageVersions : language = lv[1] /\ version = lv[2]
    /\ max_pages \in 1..MaxPages
    /\ save_interval \in 1..MaxSaveInterval
    /\ runNo = 0
    /\ downloads = ZeroCount
    /\ dequeued = 0
    /\ enqueued = ZeroCount
    /\ offered = {}
    /\ final_saves = 0
    /\ reports = 0
    /\ interrupted = FALSE
    /\ pending = {}
    /\ save_prev = MissingFile
    /\ save_new = MissingFile
    /\ crawler \in {"msd", "simple", "parser"} \cup Components
    /\ simple_queue = <<>>
    /\ simple_seen = {}
    /\ processed_count = 0
    /\ simple_pc = "idle"
    /\ simple_enqueued = ZeroCount
    /\ simple_offered = {}
    /\ fetch = NoFetch
    /\ document \in IF crawler = "parser" THEN Pages ELSE {NoPage}
    /\ parsed = "pending"
    \* the arguments of MSDManualsCrawler.run are inputs of main_crawler only
    /\ crawler # "msd" =>
          /\ file = MissingFile
          /\ language = "en" /\ version = "home"
          /\ save_interval = 1
    /\ crawler \notin {"msd", "simple"} => max_pages = 1
    /\ article_model = {}
    /\ store_stats = NoStoreStats
    /\ save_log = <<>>
    /\ articles = {}
    /\ insert_log = <<>>
    /\ insert_raised = FALSE
    /\ article \in IF crawler = "quality" THEN ArticleData ELSE {NoArticle}
    /\ validation = NoValidation
    /\ pacing \in IF crawler = "pacer" THEN Pacings ELSE {NoPacing}
    /\ delay = NoDelay
    /\ clock = 0
    /\ access_log = <<>>
    /\ threads = [t \in Threads |-> IdleThread]
    /\ calls = 0
    /\ admitted = <<>>

\* A new process: MSDManualsCrawler.__init__, which builds the CrawlerState
\* (defaults, then load_state) and the empty queue and seen set.
Construct ==
    /\ crawler = "msd"
    /\ pc \in {"idle", "done", "crashed", "aborted"}
    /\ runNo < MaxRuns
    /\ runNo' = runNo + 1
    /\ state' = load_state(file, DefaultState)
    /\ url_queue' = <<>>
    /\ seen_urls' = {}
    /\ pages_crawled' = 0
    /\ pc' = "constructed"
    /\ downloads' = ZeroCount
    /\ dequeued' = 0
    /\ enqueued' = ZeroCount
    /\ offered' = {}
    /\ final_saves' = 0
    /\ reports' = 0
    /\ interrupted' = FALSE
    /\ save_prev' = MissingFile
    /\ save_new' = MissingFile
    /\ fetch' = NoFetch
    /\ UNCHANGED <<file, db, language, version, max_pages, save_interval,
                   pending>>
    /\ UNCHANGED <<simpleVars, parserVars, componentVars, crawler>>

\* run, lines 346-355: _initialize_urls, which raises ValueError outside
\* the try for an unsupported combination
RunStart ==
    /\ pc = "constructed"
    /\ IF Supported(language, version)
       THEN /\ url_queue' = url_queue \o _initialize_urls(language, version)
            /\ pc' = "loop"
       ELSE /\ url_queue' = url_queue
            /\ pc' = "aborted"
    /\ pages_crawled' = 0
    /\ UNCHANGED <<file, db, state, seen_urls, language, version, max_pages,
                   save_interval, runNo, downloads, dequeued, enqueued,
                   offered, final_saves, reports, interrupted, pending,
                   save_prev, save_new, fetch>>
    /\ UNCHANGED <<simpleVars, parserVars, componentVars, crawler>>

\* the membership test of line 363 left out
IsProcessedNever(url, st) == FALSE

\* run, line 363: current_url in processed_urls
IsProcessed(url, st) == url \in st.processed_urls

\* run, line 358: the loop condition
CanDequeue == pc = "loop" /\ url_queue # <<>> /\ pages_crawled < max_pages

\* _save_to_database, lines 288-312: the counter it increments
save_stats(st, url, table) ==
    update_stats(st, IF url \in table
                     THEN [existing_articles_updated |-> 1]
                     ELSE [new_articles_created |-> 1])

\* stats_update that counts a landing page as a successful download too
stats_update_both(landing_skipped) ==
    IF landing_skipped
    THEN [urls_processed |-> 1, landing_pages_skipped |-> 1,
          successful_downloads |-> 1]
    ELSE [urls_processed |-> 1, successful_downloads |-> 1]

\* run, lines 385-389: stats_update
stats_update(landing_skipped) ==
    IF landing_skipped
    THEN [urls_processed |-> 1, landing_pages_skipped |-> 1]
    ELSE [urls_processed |-> 1, successful_downloads |-> 1]

\* the final save and report placed after the try statement with no finally:
\* KeyboardInterrupt leaves run without them
loop_exit_no_finally(how) == IF how = "interrupt" THEN "done" ELSE "finally"

\* run, lines 407-413: where control goes when the loop is left, by
\* exhaustion of the condition, by KeyboardInterrupt or by an Exception
loop_exit(how) == "finally"

Count(s, u) == Cardinality({i \in 1..Len(s) : s[i] = u})

Pending(queue, st) == Range(queue) \ st.processed_urls

\* _save_to_database called for a landing page too
calls_save_always(landing_skipped) == TRUE

\* run, lines 376-378: if not landing_skipped: _save_to_database
calls_save(landing_skipped) == ~landing_skipped

\* the state of an iteration that got as far as line 390
AfterStats(url, landing_skipped) ==
    LET st1 == IF calls_save(landing_skipped)
               THEN save_stats(state, url, db) ELSE state
        found == discover_urls(url, seen_urls, st1.processed_urls)
    IN [st |-> update_stats(st1, stats_update(landing_skipped)),
        table |-> IF calls_save(landing_skipped) THEN db \cup {url} ELSE db,
        queue |-> Tail(url_queue) \o found.urls,
        seen |-> found.seen,
        enq |-> [u \in Urls |-> enqueued[u] + Count(found.urls, u)],
        off |-> offered \cup Range(Links(url))]

\* run, line 358: the loop condition is false
LoopEnd ==
    /\ pc = "loop"
    /\ ~CanDequeue
    /\ pc' = loop_exit("exhausted")
    /\ UNCHANGED <<file, db, state, url_queue, seen_urls, pages_crawled,
                   language, version, max_pages, save_interval, runNo,
                   downloads, dequeued, enqueued, offered, final_saves,
                   reports, interrupted, pending, save_prev, save_new, fetch>>
    /\ UNCHANGED <<simpleVars, parserVars, componentVars, crawler>>

\* run, lines 359-364: the entry is already processed, continue
SkipProcessed ==
    /\ CanDequeue
    /\ state.processed_urls_type = "set"
    /\ IsProcessed(Head(url_queue), state)
    /\ url_queue' = Tail(url_queue)
    /\ dequeued' = dequeued + 1
    /\ UNCHANGED <<file, db, state, seen_urls, pages_crawled, pc, language,
                   version, max_pages, save_interval, runNo, downloads,
                   enqueued, offered, final_saves, reports, interrupted,
                   pending, save_prev, save_new, fetch>>
    /\ UNCHANGED <<simpleVars, parserVars, componentVars, crawler>>

\* run, line 363 when processed_urls is not a container: the membership
\* test raises TypeError outside the inner try, line 410 catches it
MembershipError ==
    /\ CanDequeue
    /\ state.processed_urls_type # "set"
    /\ url_queue' = Tail(url_queue)
    /\ dequeued' = dequeued + 1
    /\ pc' = loop_exit("exception")
    /\ UNCHANGED <<file, db, state, seen_urls, pages_crawled, language,
                   version, max_pages, save_interval, runNo, downloads,
                   enqueued, offered, final_saves, reports, interrupted,
                   pending, save_prev, save_new, fetch>>
    /\ UNCHANGED <<simpleVars, parserVars, componentVars, crawler>>

\* run, lines 359-405: an iteration whose download and parse succeed; the
\* page is a landing page or it is saved to the database
ProcessPage ==
    /\ CanDequeue
    /\ state.processed_urls_type = "set"
    /\ ~IsProcessed(Head(url_queue), state)
    /\ \E landing_skipped \in BOOLEAN :
        LET url == Head(url_queue)
            r == AfterStats(url, landing_skipped)
            n == pages_crawled + 1
        IN /\ db' = r.table
           /\ url_queue' = r.queue
           /\ seen_urls' = r.seen
           /\ pages_crawled' = n
           /\ file' = IF n % save_interval = 0
                      THEN save_state(r.st, file) ELSE file
           /\ state' = add_processed_url(r.st, url)
           /\ downloads' = [downloads EXCEPT ![url] = @ + 1]
           /\ dequeued' = dequeued + 1
           /\ enqueued' = r.enq
           /\ offered' = r.off
           /\ fetch' = Fetched(url, IF landing_skipped THEN "landing"
                                    ELSE "persisted", 200)
    /\ UNCHANGED <<pc, language, version, max_pages, save_interval, runNo,
                   final_saves, reports, interrupted, pending, save_prev,
                   save_new>>
    /\ UNCHANGED <<simpleVars, parserVars, componentVars, crawler>>

\* run, lines 359-405: an iteration in which _download_page, _parse_page
\* or _save_to_database raises; "commit" is _save_to_database raising in
\* session.commit(), after its update_stats
FailPage ==
    /\ CanDequeue
    /\ state.processed_urls_type = "set"
    /\ ~IsProcessed(Head(url_queue), state)
    /\ \E stage \in {"download", "parse", "save", "commit"},
          status \in Statuses :
        LET url == Head(url_queue)
            st1 == IF stage = "commit" THEN save_stats(state, url, db)
                   ELSE state
            st2 == update_stats(add_failed_url(st1, url),
                                [failed_downloads |-> 1])
        IN /\ (stage = "download") = ~_download_page(status).ok
           /\ state' = add_processed_url(st2, url)
           /\ url_queue' = Tail(url_queue)
           /\ downloads' = [downloads EXCEPT ![url] = @ + 1]
           /\ dequeued' = dequeued + 1
           /\ fetch' = Fetched(url, stage, status)
    /\ pc' = handler_exit
    /\ UNCHANGED <<file, db, seen_urls, pages_crawled, language, version,
                   max_pages, save_interval, runNo, enqueued, offered,
                   final_saves, reports, interrupted, pending, save_prev,
                   save_new>>
    /\ UNCHANGED <<simpleVars, parserVars, componentVars, crawler>>

\* KeyboardInterrupt raised at the loop condition (line 358), nothing of
\* the next iteration done
InterruptAtLoop ==
    /\ pc = "loop"
    /\ pc' = loop_exit("interrupt")
    /\ interrupted' = TRUE
    /\ pending' = IF state.processed_urls_type = "set"
                  THEN Pending(url_queue, state) ELSE Range(url_queue)
    /\ UNCHANGED <<file, db, state, url_queue, seen_urls, pages_crawled,
                   language, version, max_pages, save_interval, runNo,
                   downloads, dequeued, enqueued, offered, final_saves,
                   reports, save_prev, save_new, fetch>>
    /\ UNCHANGED <<simpleVars, parserVars, componentVars, crawler>>

\* KeyboardInterrupt raised inside an iteration: in _download_page (line
\* 370), after update_stats (line 390), or in the handler after
\* add_failed_url (line 401) when the request had raised.  Line 405 is not
\* reached.
InterruptInIteration ==
    /\ CanDequeue
    /\ state.processed_urls_type = "set"
    /\ ~IsProcessed(Head(url_queue), state)
    /\ \E at \in {"download", "stats", "handler"}, landing_skipped \in BOOLEAN :
        LET url == Head(url_queue)
            r == AfterStats(url, landing_skipped)
        IN /\ at # "stats" => landing_skipped
           /\ state' = CASE at = "download" -> state
                         [] at = "stats" -> r.st
                         [] at = "handler" -> add_failed_url(state, url)
           /\ db' = IF at = "stats" THEN r.table ELSE db
           /\ url_queue' = IF at = "stats" THEN r.queue ELSE Tail(url_queue)
           /\ seen_urls' = IF at = "stats" THEN r.seen ELSE seen_urls
           /\ enqueued' = IF at = "stats" THEN r.enq ELSE enqueued
           /\ offered' = IF at = "stats" THEN r.off ELSE offered
           /\ downloads' = [downloads EXCEPT ![url] = @ + 1]
           /\ dequeued' = dequeued + 1
           /\ fetch' = CASE at = "download" -> fetch
                         [] at = "stats" ->
                              Fetched(url, IF landing_skipped THEN "landing"
                                           ELSE "persisted", 200)
                         [] at = "handler" -> Fetched(url, "download", 0)
    /\ pc' = loop_exit("interrupt")
    /\ interrupted' = TRUE
    /\ pending' = Pending(url_queue', state')
    /\ UNCHANGED <<file, pages_crawled, language, version, max_pages,
                   save_interval, runNo, final_saves, reports, save_prev,
                   save_new>>
    /\ UNCHANGED <<simpleVars, parserVars, componentVars, crawler>>

\* The process is killed while the periodic save_state (line 396) writes:
\* open(..., 'w') has truncated the file and the document is not complete
CrashInPeriodicSave ==
    /\ CanDequeue
    /\ state.processed_urls_type = "set"
    /\ ~IsProcessed(Head(url_queue), state)
    /\ (pages_crawled + 1) % save_interval = 0
    /\ \E landing_skipped \in BOOLEAN :
        LET r == AfterStats(Head(url_queue), landing_skipped)
        IN /\ db' = r.table
           /\ save_new' = save_state(r.st, file)
    /\ save_prev' = file
    /\ file' = UnparseableFile
    /\ pc' = "crashed"
    /\ pending' = {}
    /\ UNCHANGED <<state, url_queue, seen_urls, pages_crawled, language,
                   version, max_pages, save_interval, runNo, downloads,
                   dequeued, enqueued, offered, final_saves, reports,
                   interrupted, fetch>>
    /\ UNCHANGED <<simpleVars, parserVars, componentVars, crawler>>

\* The process is killed while the final save_state (line 419) writes
CrashInFinalSave ==
    /\ pc = "finally"
    /\ state.processed_urls_type = "set"
    /\ save_prev' = file
    /\ save_new' = save_state(state, file)
    /\ file' = UnparseableFile
    /\ pc' = "crashed"
    /\ pending' = {}
    /\ UNCHANGED <<db, state, url_queue, seen_urls, pages_crawled, language,
                   version, max_pages, save_interval, runNo, downloads,
                   dequeued, enqueued, offered, final_saves, reports,
                   interrupted, fetch>>
    /\ UNCHANGED <<simpleVars, parserVars, componentVars, crawler>>

\* run, lines 413-419: the final save_state
FinalSave ==
    /\ pc = "finally"
    /\ file' = save_state(state, file)
    /\ final_saves' = final_saves + 1
    /\ pc' = "report"
    /\ UNCHANGED <<db, state, url_queue, seen_urls, pages_crawled, language,
                   version, max_pages, save_interval, runNo, downloads,
                   dequeued, enqueued, offered, reports, interrupted,
                   pending, save_prev, save_new, fetch>>
    /\ UNCHANGED <<simpleVars, parserVars, componentVars, crawler>>

\* run, line 422: _generate_report
Report ==
    /\ pc = "report"
    /\ reports' = reports + 1
    /\ pc' = "done"
    /\ UNCHANGED <<file, db, state, url_queue, seen_urls, pages_crawled,
                   language, version, max_pages, save_interval, runNo,
                   downloads, dequeued, enqueued, offered, final_saves,
                   interrupted, pending, save_prev, save_new, fetch>>
    /\ UNCHANGED <<simpleVars, parserVars, componentVars, crawler>>

(***************************************************************************)
(* SimpleMSDCrawler, src/code/simple_crawler.py                            *)
(***************************************************************************)
\* the anchor text of the links to a URL
LinkText(url) == IF url = PAGE_A THEN "heart disease" ELSE "more"

simple_is_allowed_url(url) ==
    /\ url.host \in allowed_domains
    /\ ~HasDir(url.path, "sitecore")
    /\ ~HasDir(url.path, "custom")
    /\ ~HasDir2(url.path, "news", "external")
    /\ ~HasDir2(url.path, "multimedia", "zk")
    /\ ~HasSeg(url.path, "downloadtextfile")

\* discover_urls, lines 470-477: a skip pattern occurs in the URL
HasSkipPattern(url) ==
    \E x \in {"login", "register", "subscribe"} : HasSeg(url.path, x)

\* discover_urls, lines 479-486: a medical keyword occurs in the text or
\* in the URL
is_medical(url) ==
    \/ LinkText(url) \in {"heart disease"}
    \/ HasSeg(url.path, "health-topics")

RECURSIVE simple_discover_from(_, _, _, _)
\* discover_urls, the loop over the links from link i on
simple_discover_from(links, i, base_url, acc) ==
    IF i > Len(links) THEN acc
    ELSE LET url == links[i]
             take == /\ simple_is_allowed_url(url)
                     /\ url \notin acc.seen
                     /\ ~HasSkipPattern(url)
             entry == [url |-> url,
                       priority |-> IF is_medical(url) THEN 1 ELSE 2,
                       source_url |-> base_url]
         IN simple_discover_from(links, i + 1, base_url,
                IF take THEN [urls |-> Append(acc.urls, entry),
                              seen |-> acc.seen \cup {url}]
                ELSE acc)

\* new_urls.sort(key=priority): the sort is stable
SortByPriority(entries) ==
    SelectSeq(entries, LAMBDA e : e.priority = 1)
        \o SelectSeq(entries, LAMBDA e : e.priority # 1)

simple_discover_urls(base_url, seen) ==
    LET r == simple_discover_from(Links(base_url), 1, base_url,
                                  [urls |-> <<>>, seen |-> seen])
    IN [urls |-> SortByPriority(r.urls), seen |-> r.seen]

\* main, lines 583-586: test_urls
start_urls == <<HOME, TOPICS>>

SimpleCanDequeue ==
    simple_pc = "loop" /\ simple_queue # <<>> /\ processed_count < max_pages

\* SimpleMSDCrawler.__init__ and run, lines 500-506
SimpleRunStart ==
    /\ crawler = "simple"
    /\ simple_pc = "idle"
    /\ simple_seen' = {}
    /\ processed_count' = 0
    /\ simple_queue' = [i \in 1..Len(start_urls) |->
                          [url |-> start_urls[i], priority |-> 1,
                           source_url |-> "None"]]
    /\ simple_pc' = "loop"
    /\ UNCHANGED <<msdVars, parserVars, componentVars, max_pages, crawler, simple_enqueued,
                   simple_offered>>

\* run, lines 510-531: one iteration.  crawl_url returns None when it
\* fails; after a success the page is requested again for discover_urls,
\* and an error of that request is ignored.  _save_progress writes no
\* state of the model.
SimpleIteration ==
    /\ SimpleCanDequeue
    /\ \E crawled \in BOOLEAN, refetched \in BOOLEAN :
        LET current_url == Head(simple_queue).url
            found == simple_discover_urls(current_url, simple_seen)
            discover == crawled /\ refetched
        IN /\ ~crawled => ~refetched
           /\ processed_count' = IF crawled THEN processed_count + 1
                                 ELSE processed_count
           /\ simple_queue' = IF discover THEN Tail(simple_queue) \o found.urls
                              ELSE Tail(simple_queue)
           /\ simple_seen' = IF discover THEN found.seen ELSE simple_seen
           /\ simple_enqueued' =
                 IF discover
                 THEN [u \in Urls |-> simple_enqueued[u]
                         + Cardinality({j \in 1..Len(found.urls) :
                                           found.urls[j].url = u})]
                 ELSE simple_enqueued
           /\ simple_offered' = IF discover
                                THEN simple_offered \cup Range(Links(current_url))
                                ELSE simple_offered
    /\ UNCHANGED <<msdVars, parserVars, componentVars, max_pages, crawler, simple_pc>>

\* run, lines 533-545: the loop ends and _save_final_results runs
SimpleLoopEnd ==
    /\ simple_pc = "loop"
    /\ ~SimpleCanDequeue
    /\ simple_pc' = "done"
    /\ UNCHANGED <<msdVars, parserVars, componentVars, max_pages, crawler, simple_queue, simple_seen,
                   processed_count, simple_enqueued, simple_offered>>

(***************************************************************************)
(* _save_to_database and MedicalDatabase.insert_article                    *)
(***************************************************************************)
\* _save_to_database that adds a row whether the URL is stored or not
_save_to_database_insert_only(rows, st, data) ==
    [rows |-> rows \cup {[id |-> Cardinality(rows) + 1, url |-> data.url,
                          content |-> data.content,
                          hash_content |-> Sha256(data.content)]},
     st |-> save_stats(st, data.url, {r.url : r \in rows})]

\* _save_to_database, lines 279-321: the row of the URL is looked up; an
\* existing row gets the content and its digest, otherwise a row is added
_save_to_database(rows, st, data) ==
    LET content_hash == Sha256(data.content)
        existing == {r \in rows : r.url = data.url}
    IN [rows |-> IF existing # {}
                 THEN (rows \ existing) \cup
                      {[r EXCEPT !.content = data.content,
                                 !.hash_content = content_hash] :
                       r \in existing}
                 ELSE rows \cup {[id |-> Cardinality(rows) + 1,
                                  url |-> data.url,
                                  content |-> data.content,
                                  hash_content |-> content_hash]},
        st |-> save_stats(st, data.url, {r.url : r \in rows})]

\* _standardize_format, data_processor.py lines 605-607: the caller of
\* insert_article fills in content_hash
_standardize_format(data) ==
    [url |-> data.url, content |-> data.content,
     content_hash |-> Sha256(data.content)]

\* _create_tables, lines 53-76: content_hash TEXT UNIQUE
content_hash_is_unique == TRUE

\* insert_article, lines 270-337: SELECT id WHERE url; an existing row is
\* updated in its content columns (content_hash is not among them); a new
\* row is inserted unless the UNIQUE constraint of content_hash refuses it,
\* then sqlite3.IntegrityError is raised after the rollback
insert_article(rows, article_data) ==
    LET existing == {r \in rows : r.url = article_data.url}
        clash == /\ content_hash_is_unique
                 /\ \E r \in rows :
                        r.content_hash = article_data.content_hash
    IN IF existing # {}
       THEN [rows |-> (rows \ existing) \cup
                      {[r EXCEPT !.content = article_data.content] :
                       r \in existing},
             raised |-> FALSE]
       ELSE IF clash
       THEN [rows |-> rows, raised |-> TRUE]
       ELSE [rows |-> rows \cup {[id |-> Cardinality(rows) + 1,
                                  url |-> article_data.url,
                                  content |-> article_data.content,
                                  content_hash |->
                                      article_data.content_hash]},
             raised |-> FALSE]

\* one call of _save_to_database
SaveToDatabase ==
    /\ crawler = "store"
    /\ Len(save_log) < MaxUpserts
    /\ \E data \in Articles :
        LET r == _save_to_database(article_model, store_stats, data)
        IN /\ article_model' = r.rows
           /\ store_stats' = r.st
           /\ save_log' = Append(save_log, data)
    /\ UNCHANGED <<msdVars, simpleVars, parserVars, max_pages, crawler,
                   articles, insert_log, insert_raised, qualityVars,
                   pacerVars, limiterVars>>

\* one call of insert_article
InsertArticle ==
    /\ crawler = "store"
    /\ Len(insert_log) < MaxUpserts
    /\ \E data \in Articles :
        LET r == insert_article(articles, _standardize_format(data))
        IN /\ articles' = r.rows
           /\ insert_raised' = r.raised
           /\ insert_log' = Append(insert_log, data)
    /\ UNCHANGED <<msdVars, simpleVars, parserVars, max_pages, crawler,
                   article_model, store_stats, save_log, qualityVars,
                   pacerVars, limiterVars>>

Next ==
    \/ Construct
    \/ RunStart
    \/ LoopEnd
    \/ SkipProcessed
    \/ MembershipError
    \/ ProcessPage
    \/ FailPage
    \/ InterruptAtLoop
    \/ InterruptInIteration
    \/ CrashInPeriodicSave
    \/ CrashInFinalSave
    \/ FinalSave
    \/ Report
    \/ SimpleRunStart
    \/ SimpleIteration
    \/ SimpleLoopEnd
    \/ ParsePage
    \/ SaveToDatabase
    \/ InsertArticle
    \/ ValidateArticle
    \/ GetDomainDelay
    \/ Allow

Spec == Init /\ [][Next]_vars

\* the components alone
ComponentInit == Init /\ crawler \in Components

ComponentNext ==
    \/ SaveToDatabase
    \/ InsertArticle
    \/ ValidateArticle
    \/ GetDomainDelay
    \/ Allow

ComponentSpec == ComponentInit /\ [][ComponentNext]_vars

(***************************************************************************)
(* One process of main_crawler from its construction to its exit.  The     *)
(* interpreter goes on with the next statement of a program that has one:  *)
(* the process keeps taking its steps as long as it is not killed, and     *)
(* session.get returns (timeout=30) or raises.                             *)
(***************************************************************************)
FirstConstruct == runNo = 0 /\ Construct

\* run, lines 358-405: one pass of the while loop
Iteration == SkipProcessed \/ MembershipError \/ FailPage \/ ProcessPage

RunNext ==
    \/ FirstConstruct
    \/ RunStart
    \/ LoopEnd
    \/ SkipProcessed
    \/ MembershipError
    \/ ProcessPage
    \/ FailPage
    \/ InterruptAtLoop
    \/ InterruptInIteration
    \/ CrashInPeriodicSave
    \/ CrashInFinalSave
    \/ FinalSave
    \/ Report

LiveInit == Init /\ crawler = "msd"

LiveSpec ==
    /\ LiveInit
    /\ [][RunNext]_vars
    /\ WF_vars(RunStart)
    /\ WF_vars(Iteration)
    /\ WF_vars(LoopEnd)
    /\ WF_vars(FinalSave)
    /\ WF_vars(Report)

(***************************************************************************)
(* Properties                                                              *)
(***************************************************************************)
TerminalCounters == {"successful_downloads", "landing_pages_skipped",
                     "failed_downloads", "parse_errors"}

CounterSum(st) ==
    st.successful_downloads + st.landing_pages_skipped
        + st.failed_downloads + st.parse_errors

\* C1: within one run no URL is passed to _download_page more than once,
\* and a URL that is in processed_urls (also one loaded from a checkpoint)
\* is never passed to _download_page.
NoRefetch ==
    [][\A u \in Urls :
          /\ downloads'[u] <= 1
          /\ downloads'[u] > downloads[u] =>
                /\ state.processed_urls_type = "set"
                /\ u \notin state.processed_urls]_vars

\* a resumed run dequeued the seed that the checkpoint lists as processed,
\* did not download it, and downloaded the next seed
NoRefetchWitness ==
    /\ runNo = 2
    /\ HOME \in state.processed_urls
    /\ downloads[HOME] = 0
    /\ downloads[TOPICS] = 1
    /\ dequeued >= 2

\* C2: every URL that was queued and unprocessed when a run was interrupted
\* is fetched by a later run of the same language and version that starts
\* from the checkpoint, when that run ends below max_pages (here: a later
\* run that loaded the checkpoint and in which no URL failed).
ResumeFetchesPending ==
    (/\ runNo >= 2
     /\ pc = "done"
     /\ ~interrupted
     /\ state.processed_urls_type = "set"
     /\ state.failed_urls = {}
     /\ pages_crawled < max_pages) => \A u \in pending : downloads[u] >= 1

\* C3: every way the loop of run ends (condition false, KeyboardInterrupt,
\* exception) leads to the finally block, which calls save_state once and
\* then _generate_report once, and nothing is dequeued after the interrupt.
FinalSaveAndReport ==
    [][/\ (pc = "loop" /\ pc' \notin {"loop", "crashed"}) => pc' = "finally"
       /\ (pc = "finally" /\ pc' # "crashed") =>
             (pc' = "report" /\ final_saves' = final_saves + 1)
       /\ pc = "report" => (pc' = "done" /\ reports' = reports + 1)
       /\ pc' = "done" => (final_saves' = 1 /\ reports' = 1)
       /\ (interrupted /\ runNo' = runNo) => dequeued' = dequeued]_vars

\* a run that was interrupted after it dequeued entries has saved and
\* reported once
FinalSaveAndReportWitness ==
    /\ pc = "done"
    /\ interrupted
    /\ dequeued > 0
    /\ final_saves = 1
    /\ reports = 1

\* C4 as claimed, on a run resumed from a checkpoint: at every iteration
\* boundary the terminal counters sum to the number of entries dequeued in
\* the run.
CountersSumToDequeued ==
    (/\ pc = "loop"
     /\ runNo >= 2
     /\ dequeued >= 1
     /\ state.processed_urls_type = "set") => CounterSum(state) = dequeued

\* C4, amended: a completed iteration that dequeues an entry not yet in
\* processed_urls adds one to exactly one terminal counter and leaves the
\* others; one that dequeues an entry already in processed_urls changes no
\* terminal counter.
OneCounterPerFetchedEntry ==
    [][(dequeued' = dequeued + 1 /\ pc' = "loop") =>
          LET changed == {k \in TerminalCounters : state'[k] # state[k]}
          IN IF Head(url_queue) \in state.processed_urls
             THEN changed = {}
             ELSE /\ Cardinality(changed) = 1
                  /\ CounterSum(state') = CounterSum(state) + 1]_vars

\* a resumed run has skipped a processed entry and fetched another one
OneCounterPerFetchedEntryWitness ==
    /\ pc = "loop"
    /\ runNo = 2
    /\ dequeued = 2
    /\ downloads[HOME] = 0
    /\ downloads[TOPICS] = 1
    /\ CounterSum(state) = 2

\* C5: urls_processed equals the size of processed_urls at every iteration
\* boundary of run and in every checkpoint save_state writes.
UrlsProcessedIsSetSize ==
    /\ (pc = "loop" /\ state.processed_urls_type = "set") =>
          state.urls_processed = Cardinality(state.processed_urls)
    /\ (file.kind = "json" /\ file.data.processed_urls_type = "list") =>
          file.data.urls_processed = Len(file.data.processed_urls)

\* C6: a crash during a save_state that replaces a checkpoint leaves the
\* complete previous checkpoint or the complete new one.
CrashKeepsCheckpoint ==
    (pc = "crashed" /\ save_prev.kind = "json") => file \in {save_prev, save_new}

\* C7: with a missing, unparseable or malformed checkpoint, load_state
\* leaves the zeroed defaults.
BadCheckpointGivesDefaults ==
    (/\ pc = "constructed"
     /\ \/ file.kind # "json"
        \/ file.data.processed_urls_type # "list") => state = DefaultState

\* C8: save_state followed by load_state in a fresh CrawlerState yields the
\* same processed_urls and failed_urls and the same counters, for the state
\* of every reachable state and for the final save of a process followed by
\* the construction of the next one.
SameSetsAndCounters(a, b) ==
    /\ a.processed_urls_type = b.processed_urls_type
    /\ a.processed_urls = b.processed_urls
    /\ a.failed_urls = b.failed_urls
    /\ \A k \in Counters : a[k] = b[k]

SaveLoadRoundTrip ==
    /\ [](SameSetsAndCounters(
             load_state(save_state(state, file), DefaultState), state))
    /\ [][(pc = "done" /\ pc' = "constructed") =>
             SameSetsAndCounters(state', state)]_vars

\* the second process has loaded a checkpoint with processed and failed
\* URLs and non-zero counters
SaveLoadRoundTripWitness ==
    /\ pc = "constructed"
    /\ runNo = 2
    /\ file.kind = "json"
    /\ state.failed_urls # {}
    /\ state.failed_urls # state.processed_urls
    /\ state.successful_downloads > 0
    /\ state.failed_downloads > 0

\* C9: url_queue never holds two entries with the same URL.
QueueHasNoDuplicates ==
    \A i, j \in 1..Len(url_queue) : i # j => url_queue[i] # url_queue[j]

\* C10: a link that was offered to discover_urls before, or that is in
\* processed_urls, is not enqueued; a link offered several times on one
\* page is enqueued at most once; in MSDManualsCrawler and (without
\* processed_urls) in SimpleMSDCrawler.
DiscoverIsIdempotent ==
    [][/\ runNo' = runNo =>
             \A u \in Urls :
                /\ enqueued'[u] <= enqueued[u] + 1
                /\ (u \in offered \/ u \in state.processed_urls) =>
                      enqueued'[u] = enqueued[u]
       /\ \A u \in Urls :
             /\ simple_enqueued'[u] <= simple_enqueued[u] + 1
             /\ u \in simple_offered =>
                   simple_enqueued'[u] = simple_enqueued[u]]_vars

\* PAGE_A was offered twice on the page of HOME and again on the page of
\* TOPICS, HOME was offered on its own page and again on the page of
\* PAGE_A when it was processed: each was enqueued once
DiscoverIsIdempotentWitness ==
    /\ downloads[HOME] = 1
    /\ downloads[TOPICS] = 1
    /\ downloads[PAGE_A] = 1
    /\ PAGE_A \in state.processed_urls
    /\ enqueued[PAGE_A] = 1
    /\ enqueued[HOME] = 1

\* the normalized form of a URL: the fragment is not part of the resource
Normalize(u) == [u EXCEPT !.fragment = ""]

\* C11: two links whose normalized URLs are equal are one frontier entry:
\* in a run at most one of them is enqueued by discover_urls and at most
\* one of them is fetched.
NormalizedUrlsAreOneEntry ==
    \A u, v \in Urls :
        (u # v /\ Normalize(u) = Normalize(v)) =>
            /\ enqueued[u] + enqueued[v] <= 1
            /\ downloads[u] + downloads[v] <= 1

\* C12: a URL whose fetch failed with a status of retry_status_codes, or
\* with any error that is not a give-up status, is in failed_urls only after
\* max_retries requests were sent for it.
RetriedBeforeFailed ==
    (/\ fetch.outcome = "download"
     /\ \/ fetch.status \in retry_status_codes
        \/ fetch.status \notin give_up_status_codes
     /\ state.processed_urls_type = "set"
     /\ fetch.url \in state.failed_urls) => fetch.attempts = max_retries

\* C13: an iteration whose fetch is answered with a give-up status sends
\* one request, calls _download_page once for that URL in the run, adds the
\* URL to failed_urls and appends one error_log entry, for that URL.
GiveUpAfterOneAttempt ==
    [][(/\ dequeued' = dequeued + 1
        /\ downloads' # downloads
        /\ fetch'.outcome = "download"
        /\ fetch'.status \in give_up_status_codes
        /\ pc' = "loop") =>
          LET url == Head(url_queue)
          IN /\ fetch'.url = url
             /\ fetch'.attempts = 1
             /\ downloads[url] = 0 /\ downloads'[url] = 1
             /\ url \in state'.failed_urls
             /\ state'.error_log = Append(state.error_log, url)]_vars

\* the first seed was answered with 404 and the next entry is being fetched
GiveUpAfterOneAttemptWitness ==
    /\ pc = "loop"
    /\ fetch = [url |-> HOME, outcome |-> "download", status |-> 404,
                attempts |-> 1, slept |-> FALSE]
    /\ downloads[HOME] = 1
    /\ HOME \in state.failed_urls
    /\ Len(state.error_log) = 1
    /\ url_queue # <<>>

FailOutcomes == {"download", "parse", "save", "commit"}

\* C14: an iteration in which the download, the parse or the save raises
\* records the URL in failed_urls and processed_urls and leaves run in the
\* loop with the rest of the queue; and a run that was not interrupted ends
\* only with an empty queue or with pages_crawled = max_pages.
FailureIsIsolated ==
    /\ [][(/\ dequeued' = dequeued + 1
           /\ downloads' # downloads
           /\ fetch'.outcome \in FailOutcomes
           /\ ~interrupted') =>
             LET url == Head(url_queue)
             IN /\ pc' = "loop"
                /\ url \in state'.failed_urls
                /\ url \in state'.processed_urls
                /\ state'.failed_downloads = state.failed_downloads + 1
                /\ url_queue' = Tail(url_queue)]_vars
    /\ []((/\ pc \in {"finally", "report", "done"}
           /\ ~interrupted
           /\ state.processed_urls_type = "set") =>
             (url_queue = <<>> \/ pages_crawled >= max_pages))

\* the parse or the save of the first seed raised, and the second seed was
\* fetched and stored after it
FailureIsIsolatedWitness ==
    /\ runNo = 1
    /\ HOME \in state.failed_urls
    /\ state.failed_downloads = 1
    /\ fetch.url = TOPICS
    /\ fetch.outcome = "persisted"
    /\ TOPICS \in db
    /\ pc = "done"

\* the links of a page that _is_allowed_url accepts
AllowedLinks(u) == {l \in Range(Links(u)) : _is_allowed_url(l)}

\* C15: after an iteration whose download succeeded, whatever the page
\* ended as, every allowed link of the page is in seen_urls or in
\* processed_urls, that is, discover_urls has run on the page.
DiscoverAfterEveryDownload ==
    (/\ pc = "loop"
     /\ fetch.outcome \in {"landing", "persisted", "parse", "save", "commit"}
     /\ state.processed_urls_type = "set") =>
        AllowedLinks(fetch.url) \subseteq (seen_urls \cup state.processed_urls)

DisallowedSegments == {"sitecore", "custom", "downloadtextfile",
                       "pagerevalidation", "bigqueryexport"}

\* C16: every URL that discover_urls has enqueued has a host of the
\* allow-list and no disallowed path segment; a link to another host or to
\* a disallowed path is never enqueued, queued, fetched, stored or recorded
\* in processed_urls or failed_urls.
OnlyAllowedUrlsEnqueued ==
    \A u \in Urls :
        LET host_ok == u.host \in {"www.msdmanuals.com", "www.msdmanuals.cn",
                                   "www.msdvetmanual.com"}
            path_ok == \A i \in 1..Len(u.path) :
                           u.path[i] \notin DisallowedSegments
        IN /\ enqueued[u] > 0 => (host_ok /\ path_ok)
           /\ ~(host_ok /\ path_ok) =>
                 /\ enqueued[u] = 0
                 /\ downloads[u] = 0
                 /\ u \notin Range(url_queue)
                 /\ u \notin db
                 /\ state.processed_urls_type = "set" =>
                       (u \notin state.processed_urls
                          /\ u \notin state.failed_urls)

\* the pages that link to example.org and to /sitecore/x were fetched and
\* their other links were enqueued
OnlyAllowedUrlsEnqueuedWitness ==
    /\ downloads[HOME] = 1
    /\ downloads[PAGE_A] = 1
    /\ EXT \in offered
    /\ ADMIN \in offered
    /\ enqueued[PAGE_A] = 1
    /\ enqueued[EXT] = 0
    /\ enqueued[ADMIN] = 0

\* C17: error_log never holds more than the ErrorLogShown most recent
\* entries.
ErrorLogIsBounded == Len(state.error_log) <= ErrorLogShown

\* the entries an iteration appended to a queue that held n entries before
Batch(queue_after, n) == SubSeq(queue_after, n, Len(queue_after))

\* C18: the entries that one iteration appends to the queue are behind the
\* entries queued before, and among them the links whose text or URL has a
\* medical keyword come before the others, in MSDManualsCrawler.run and in
\* SimpleMSDCrawler.run.
MedicalLinksFirst ==
    [][/\ dequeued' = dequeued + 1 =>
             LET batch == Batch(url_queue', Len(url_queue))
             IN \A i, j \in 1..Len(batch) :
                   i < j => ~(~is_medical(batch[i]) /\ is_medical(batch[j]))
       /\ (simple_pc = "loop" /\ simple_queue' # simple_queue) =>
             LET batch == Batch(simple_queue', Len(simple_queue))
             IN \A i, j \in 1..Len(batch) :
                   i < j => ~(~is_medical(batch[i].url)
                                 /\ is_medical(batch[j].url))]_vars

\* C19: for a document with a body and no content region, parse returns
\* None exactly when wordCount < 32 and (navRatio > 0.45 or repeatedRatio >
\* 0.55), navRatio being the words inside the nav elements of the page over
\* max(wordCount, 1).
FallbackLandingRule ==
    (/\ parsed # "pending"
     /\ document.has_body
     /\ document.region = "none") =>
        LET wordCount == document.body_words
            navWords == document.nav_in_body + document.nav_outside
            d == IF wordCount > 1 THEN wordCount ELSE 1
            navHeavy == navWords * 100 > 45 * d
            repeated == IF wordCount = 0 THEN TRUE
                        ELSE document.top_count * 100 > 55 * wordCount
        IN (parsed = "None") = (wordCount < 32 /\ (navHeavy \/ repeated))

\* C20: for a document that has a content region (a main or article
\* element or a match of a content selector), parse does not return None.
RegionIsNeverLanding ==
    (parsed # "pending" /\ document.region # "none") => parsed # "None"

\* C21: a call of _save_to_database with the content that is already
\* stored for the URL adds one to existing_articles_updated, leaves
\* new_articles_created alone, leaves exactly one row for the URL and
\* leaves the digest of that row as it was
SameContentCountsAsUpdate ==
    [][\A data \in Articles :
         (/\ save_log' = Append(save_log, data)
          /\ \E r \in article_model :
                 r.url = data.url /\ r.content = data.content)
         => /\ store_stats'.existing_articles_updated =
                   store_stats.existing_articles_updated + 1
            /\ store_stats'.new_articles_created =
                   store_stats.new_articles_created
            /\ Cardinality({r \in article_model' : r.url = data.url}) = 1
            /\ \A r \in article_model, q \in article_model' :
                   (r.url = data.url /\ q.url = data.url)
                   => q.hash_content = r.hash_content]_vars

SameContentCountsAsUpdateWitness ==
    /\ save_log = <<[url |-> PAGE_A, content |-> "alpha"],
                    [url |-> PAGE_A, content |-> "alpha"]>>
    /\ store_stats.existing_articles_updated = 1
    /\ store_stats.new_articles_created = 1
    /\ Cardinality(article_model) = 1

\* C22: in both stores the fingerprint stored with a row is the SHA-256
\* digest of the content stored in that row
FingerprintIsDigestOfContent ==
    /\ \A r \in article_model : r.hash_content = Sha256(r.content)
    /\ \A r \in articles : r.content_hash = Sha256(r.content)

\* C23: every URL that was given to a store has a row of its own in that
\* store, whatever content other URLs were stored with
EveryUrlHasItsRow ==
    /\ \A i \in 1..Len(save_log) :
           \E r \in article_model : r.url = save_log[i].url
    /\ \A i \in 1..Len(insert_log) :
           \E r \in articles : r.url = insert_log[i].url

\* the weights of the six checks that hold, less the penalty for repeated
\* content
WeightsLessPenalty(a) ==
    (IF a.title_length >= 5 THEN 20 ELSE 0)
    + (IF a.content.length >= 100 THEN 30 ELSE 0)
    + (IF a.word_count >= 10 THEN 20 ELSE 0)
    + (IF a.medical_terms >= 1 THEN 15 ELSE 0)
    + (IF a.url[1] \in {"http", "https"} THEN 10 ELSE 0)
    + (IF a.category # "" /\ a.language # "" THEN 5 ELSE 0)
    - (IF _has_repeated_content(a.content) THEN 10 ELSE 0)

\* C24: quality_score is the sum of the weights of the checks that hold
\* less the repeated-content penalty, capped to 0..100, and an article for
\* which the six checks hold with no penalty scores 100
ScoreIsCappedSumOfWeights ==
    validation.done =>
        /\ validation.quality_score =
               Max2(0, Min2(100, WeightsLessPenalty(article)))
        /\ WeightsLessPenalty(article) = 100
               => validation.quality_score = 100

\* C25: with randomize_download_delay off the delay is the one configured
\* for the host, or the default for a host that is not configured; with it
\* on the delay lies in download_delay_range
DelayIsBaseOrWithinRange ==
    delay # NoDelay =>
        IF pacing.randomize_download_delay
        THEN 40 <= delay /\ delay <= 60
        ELSE delay = CASE pacing.netloc = "www.msdmanuals.com" -> 50
                       [] pacing.netloc = "WWW.MSDMANUALS.CN" -> 60
                       [] pacing.netloc = "www.msdvetmanual.com" -> 70
                       [] OTHER -> 50

DelayIsBaseOrWithinRangeWitness ==
    /\ pacing = [netloc |-> "www.msdvetmanual.com",
                 randomize_download_delay |-> TRUE]
    /\ delay = 40

\* C26: every iteration that called _download_page, whether the request
\* succeeded or failed, has slept for the delay before the next entry is
\* dequeued
SleepAfterEveryDownload == fetch.outcome # "none" => fetch.slept

\* C27: an iteration whose page the parser classifies as a landing page
\* writes nothing to the database, adds one to landing_pages_skipped and
\* leaves successful_downloads, new_articles_created and
\* existing_articles_updated as they were
LandingPageIsNotStored ==
    [][(/\ fetch'.outcome = "landing"
        /\ downloads'[fetch'.url] = downloads[fetch'.url] + 1)
       => /\ db' = db
          /\ state'.landing_pages_skipped = state.landing_pages_skipped + 1
          /\ state'.successful_downloads = state.successful_downloads
          /\ state'.new_articles_created = state.new_articles_created
          /\ state'.existing_articles_updated =
                 state.existing_articles_updated]_vars

LandingPageIsNotStoredWitness ==
    /\ fetch.outcome = "landing"
    /\ fetch.url = HOME
    /\ downloads[HOME] = 1
    /\ HOME \notin db
    /\ state.landing_pages_skipped = 1
    /\ state.successful_downloads = 0

\* C28: at every iteration boundary of run, failed_urls is a subset of
\* processed_urls
FailedSubsetOfProcessed ==
    (pc = "loop" /\ state.processed_urls_type = "set")
        => state.failed_urls \subseteq state.processed_urls

\* C29: discover_urls enqueues each URL at most once in a run, a run that
\* entered its loop ends (or the process is killed while it saves), a run
\* that was not interrupted leaves the loop only with an empty queue or
\* with pages_crawled = max_pages, and a run that ended has written the
\* final checkpoint
RunTerminates ==
    /\ [](\A u \in Urls : enqueued[u] <= 1)
    /\ (pc = "loop") ~> (pc \in {"done", "crashed"})
    /\ []((/\ pc \in {"finally", "report", "done"}
           /\ ~interrupted
           /\ state.processed_urls_type = "set")
          => (url_queue = <<>> \/ pages_crawled = max_pages))
    /\ [](pc = "done" => final_saves = 1)

\* a run that emptied its queue before max_pages pages, with entries that
\* discover_urls had added, and then wrote the final checkpoint
RunTerminatesWitness ==
    /\ pc = "done"
    /\ ~interrupted
    /\ url_queue = <<>>
    /\ pages_crawled < max_pages
    /\ pages_crawled >= 1
    /\ \E u \in Urls : enqueued[u] = 1 /\ downloads[u] = 1
    /\ final_saves = 1
    /\ file.kind = "json"

\* C30: of the calls of allow for one client_id, at most max_requests
\* whose now lies in a window of window_seconds returned True, however the
\* request threads interleave
AtMostMaxRequestsPerWindow ==
    \A t \in 0..MaxClock :
        Cardinality({i \in 1..Len(admitted) :
                        /\ admitted[i] > t - window_seconds
                        /\ admitted[i] <= t}) <= max_requests
====
